---- MODULE Spec2Model ----
(***************************************************************************)
(* Anomaly detection engine of backend/api/anomalies.py: the series        *)
(* normaliser (_fill_missing_days) and the two rolling detectors           *)
(* (_detect_zscore, _detect_iqr), each run as the loop the code runs.      *)
(*                                                                         *)
(* Numbers.  The code computes in Python floats (binary floating point,    *)
(* round to nearest, ties to even, 53-bit significand).  The model keeps   *)
(* the same arithmetic with a significand of Prec bits: a float is a       *)
(* rational <<n, d>> in lowest terms, d a power of two, |n| < 2^Prec after *)
(* removing the factors of two; every arithmetic operation of the code is  *)
(* the exact operation followed by Round.  Exponents are unbounded (no     *)
(* overflow to inf, no underflow), which the bounded inputs never reach.   *)
(* x**2 is taken as the correctly rounded product (the C library's pow is  *)
(* within one unit in the last place of it).                               *)
(***************************************************************************)
EXTENDS Integers, Sequences, FiniteSets, TLC

\* Bits of the significand of a float (Python: 53).
Prec == 5

\* Longest series handed to a detector.
MaxLen == 5

-----------------------------------------------------------------------------
(* Rationals <<n, d>>, d > 0, in lowest terms.                             *)

Abs(x) == IF x < 0 THEN -x ELSE x

RECURSIVE GCD(_, _)
GCD(a, b) == IF b = 0 THEN a ELSE GCD(b, a % b)

RNorm(n, d) ==
    IF n = 0 THEN <<0, 1>>
    ELSE LET g == GCD(Abs(n), d) IN <<n \div g, d \div g>>

RInt(k) == <<k, 1>>
RNeg(a) == <<-a[1], a[2]>>
RAdd(a, b) == RNorm(a[1] * b[2] + b[1] * a[2], a[2] * b[2])
RSub(a, b) == RNorm(a[1] * b[2] - b[1] * a[2], a[2] * b[2])
RMul(a, b) == RNorm(a[1] * b[1], a[2] * b[2])
\* a / b for b # 0
RDiv(a, b) ==
    IF b[1] > 0 THEN RNorm(a[1] * b[2], a[2] * b[1])
    ELSE RNorm(-(a[1] * b[2]), a[2] * (-b[1]))
RLt(a, b) == a[1] * b[2] < b[1] * a[2]
RLe(a, b) == a[1] * b[2] <= b[1] * a[2]
RGt(a, b) == RLt(b, a)
RGe(a, b) == RLe(b, a)
RAbs(a) == <<Abs(a[1]), a[2]>>
RZero == <<0, 1>>

-----------------------------------------------------------------------------
(* Float rounding: the nearest float of Prec significant bits, ties to the *)
(* even significand.                                                       *)

\* n / d rounded to the nearest integer, ties to even (n >= 0, d > 0)
RoundHalfEven(n, d) ==
    LET q == n \div d
        r == n % d
    IN IF 2 * r > d \/ (2 * r = d /\ q % 2 = 1) THEN q + 1 ELSE q

RECURSIVE RoundPos(_, _)
RoundPos(n, d) ==
    IF n >= d * 2^Prec
    THEN LET h == RoundPos(n, 2 * d) IN RNorm(2 * h[1], h[2])
    ELSE IF n < d * 2^(Prec - 1)
    THEN LET h == RoundPos(2 * n, d) IN RNorm(h[1], 2 * h[2])
    ELSE <<RoundHalfEven(n, d), 1>>

Round(a) ==
    IF a[1] = 0 THEN RZero
    ELSE IF a[1] < 0 THEN RNeg(RoundPos(-a[1], a[2]))
    ELSE RoundPos(a[1], a[2])

IsFloat(a) == Round(a) = a

\* float + float, float - float, float * float, float / float
FAdd(a, b) == Round(RAdd(a, b))
FSub(a, b) == Round(RSub(a, b))
FMul(a, b) == Round(RMul(a, b))
FDiv(a, b) == Round(RDiv(a, b))

\* floor of the square root of a natural number below 4^Prec
ISqrt(x) == CHOOSE m \in 0..(2^Prec) : m * m <= x /\ x < (m + 1) * (m + 1)

\* math.sqrt: the correctly rounded square root of a float a > 0
RECURSIVE SqrtPos(_, _)
SqrtPos(n, d) ==
    IF n >= d * 4^Prec
    THEN LET h == SqrtPos(n, 4 * d) IN RNorm(2 * h[1], h[2])
    ELSE IF n < d * 4^(Prec - 1)
    THEN LET h == SqrtPos(4 * n, d) IN RNorm(h[1], 2 * h[2])
    ELSE LET m == ISqrt(n \div d)
         IN IF 4 * n > d * (4 * m * m + 4 * m + 1) THEN <<m + 1, 1>> ELSE <<m, 1>>

FSqrt(a) == SqrtPos(a[1], a[2])

\* sum(xs): the builtin adds from the left, starting at the integer 0, and
\* rounds every partial sum (CPython before 3.12; later versions carry a
\* compensation term and round once more at the end)
RECURSIVE FSum(_)
FSum(xs) ==
    IF xs = <<>> THEN RZero
    ELSE FAdd(FSum(SubSeq(xs, 1, Len(xs) - 1)), xs[Len(xs)])

-----------------------------------------------------------------------------
(* Input domains.                                                          *)

\* Revenue values of the enumerated series (floats of at most 4 bits).
Vals == {RInt(0), RInt(4), RInt(13)}

\* window: 0 is a degenerate window, 2, 3 and 4 pass the endpoint's validation
Windows == {0, 2, 3, 4}

\* threshold > 0 (Query(gt=0)): 1/2 and 3
Thresholds == {<<1, 2>>, RInt(3)}

RECURSIVE SeqsUpTo(_, _)
SeqsUpTo(S, n) ==
    IF n = 0 THEN {<<>>}
    ELSE LET shorter == SeqsUpTo(S, n - 1)
         IN shorter \cup {Append(s, x) : s \in {t \in shorter : Len(t) = n - 1}, x \in S}

IntSeq(xs) == [k \in 1..Len(xs) |-> RInt(xs[k])]

\* The worked examples of the specification: <<values, window, threshold>>
ExampleRuns ==
    { <<IntSeq(<<10, 12, 11, 13, 12, 50>>), 5, RInt(2)>>,
      <<IntSeq(<<1, 1, 1, 1, 1, 100>>), 5, RInt(3)>>,
      <<IntSeq(<<0, 2, 4>>), 2, RInt(3)>> }

-----------------------------------------------------------------------------
(* _detect_zscore, lines 111-135.  Indices are the code's (from 0); the    *)
(* sequence vals holds series_vals[k] at position k + 1.                   *)

Max(a, b) == IF a >= b THEN a ELSE b

\* Mutant of WindowVals: a window centred on i (it holds series_vals[i] and the next value)
WindowValsCentred(vals, i, window) ==
    SubSeq(vals, Max(0, i - window) + 1, IF i + 2 <= Len(vals) THEN i + 2 ELSE Len(vals))

\* Mutant of WindowVals: every value before index i
WindowValsAll(vals, i, window) == SubSeq(vals, 1, i)

\* series_vals[start:end] with start = max(0, i - window), end = i
WindowVals(vals, i, window) == SubSeq(vals, Max(0, i - window) + 1, i)

\* sum(window_vals)/len(window_vals)
Mean(w) == FDiv(FSum(w), RInt(Len(w)))

\* (x-mean)**2
SqDev(x, mean) == LET dev == FSub(x, mean) IN FMul(dev, dev)

\* Mutant of VarDivisor: the divisor of the sample variance
VarDivisorSample(w) == Len(w) - 1

\* len(window_vals)-0
VarDivisor(w) == Len(w) - 0

\* sum((x-mean)**2 for x in window_vals) / (len(window_vals)-0)
Variance(w, mean) ==
    FDiv(FSum([k \in 1..Len(w) |-> SqDev(w[k], mean)]), RInt(VarDivisor(w)))

\* math.sqrt(var) if var > 0 else 0.0
Std(var) == IF RGt(var, RZero) THEN FSqrt(var) ELSE RZero

\* Mutant of ZScore: the sign of the deviation is lost
ZScoreUnsigned(val, mean, std) == RAbs(FDiv(FSub(val, mean), std))

\* z = (series_vals[i] - mean) / std
ZScore(val, mean, std) == FDiv(FSub(val, mean), std)

\* Mutant of ZFlagged: a strict comparison
ZFlaggedStrict(z, threshold) == RGt(RAbs(z), threshold)

\* Mutant of ZFlagged: flags the scores up to the threshold
ZFlaggedBelow(z, threshold) == RGe(threshold, RAbs(z))

\* abs(z) >= threshold
ZFlagged(z, threshold) == RGe(RAbs(z), threshold)

\* Mutant of ZscoreTooShort: the history check is missing
ZscoreNeverTooShort(w) == FALSE

\* if len(window_vals) < 2: continue
ZscoreTooShort(w) == Len(w) < 2

\* if std == 0: continue
ZscoreFlat(std) == std = RZero

\* What one pass of a loop body does: the exception it raises ("none" when it
\* raises none) and the entries it appends to anomalies.
Pass(entries) == [raised |-> "none", add |-> entries]
Raise(exc) == [raised |-> exc, add |-> <<>>]

\* One pass of the loop body of _detect_zscore for index i.  A float division
\* by zero raises ZeroDivisionError.
ZscoreBody(vals, window, threshold, i) ==
    LET w == WindowVals(vals, i, window)
        mean == Mean(w)
        var == Variance(w, mean)
        std == Std(var)
        z == ZScore(vals[i + 1], mean, std)
    IN IF ZscoreTooShort(w) THEN Pass(<<>>)
       ELSE IF Len(w) = 0 \/ VarDivisor(w) = 0 THEN Raise("ZeroDivisionError")
       ELSE IF ZscoreFlat(std) THEN Pass(<<>>)
       ELSE IF std = RZero THEN Raise("ZeroDivisionError")
       ELSE IF ZFlagged(z, threshold) THEN Pass(<< <<i, z>> >>)
       ELSE Pass(<<>>)

-----------------------------------------------------------------------------
(* _detect_iqr, lines 137-165.                                             *)

RECURSIVE Insert(_, _)
Insert(x, s) ==
    IF s = <<>> THEN <<x>>
    ELSE IF RLe(x, s[1]) THEN <<x>> \o s
    ELSE <<s[1]>> \o Insert(x, Tail(s))

\* sorted(data)
RECURSIVE Sorted(_)
Sorted(s) == IF s = <<>> THEN <<>> ELSE Insert(s[1], Sorted(Tail(s)))

\* Mutant of Quantile: the 'inclusive' method, m = ld - 1
QuantileInclusive(sd, k) ==
    LET ld == Len(sd)
        j == (k * (ld - 1)) \div 4
        delta == k * (ld - 1) - j * 4
    IN FDiv(FAdd(FMul(sd[j + 1], RInt(4 - delta)), FMul(sd[j + 2], RInt(delta))), RInt(4))

\* statistics.quantiles(data, n=4)[k - 1], method 'exclusive', len(data) >= 2,
\* for sd = sorted(data):
\*   m = ld + 1; j = k*m // n, clamped to 1 .. ld-1; delta = k*m - j*n
\*   (data[j - 1] * (n - delta) + data[j] * delta) / n
Quantile(sd, k) ==
    LET ld == Len(sd)
        j0 == (k * (ld + 1)) \div 4
        j == IF j0 < 1 THEN 1 ELSE IF j0 > ld - 1 THEN ld - 1 ELSE j0
        delta == k * (ld + 1) - j * 4
    IN FDiv(FAdd(FMul(sd[j], RInt(4 - delta)), FMul(sd[j + 1], RInt(delta))), RInt(4))

\* q1 = statistics.quantiles(window_vals, n=4)[0]
Q1(w) == Quantile(Sorted(w), 1)
\* q3 = statistics.quantiles(window_vals, n=4)[2]
Q3(w) == Quantile(Sorted(w), 3)
\* iqr = q3 - q1
Iqr(q1, q3) == FSub(q3, q1)

\* Mutant of IqrTooShort: two values are taken for enough
IqrTooShortTwo(w) == Len(w) < 2

\* Mutant of IqrTooShort: a window of three values is enough
IqrTooShortThree(w) == Len(w) < 3

\* if len(window_vals) < 4: continue
IqrTooShort(w) == Len(w) < 4

\* Mutant of IqrFlat: a zero IQR is not skipped
IqrNeverFlat(iqr) == FALSE

\* if iqr == 0: continue
IqrFlat(iqr) == iqr = RZero

\* Mutant of IqrUpper: an inclusive upper fence
IqrUpperInclusive(val, q3, iqr, threshold) == RGe(val, FAdd(q3, FMul(threshold, iqr)))

\* val > q3 + threshold * iqr
IqrUpper(val, q3, iqr, threshold) == RGt(val, FAdd(q3, FMul(threshold, iqr)))
\* val < q1 - threshold * iqr
IqrLower(val, q1, iqr, threshold) == RLt(val, FSub(q1, FMul(threshold, iqr)))

\* Mutant of UpperScore: the distance is not divided by the IQR
UpperScoreRaw(val, q3, iqr) == FSub(val, q3)

\* score = (val - q3) / iqr
UpperScore(val, q3, iqr) == FDiv(FSub(val, q3), iqr)
\* Mutant of LowerScore: the signed distance from Q1
LowerScoreSigned(val, q1, iqr) == FDiv(FSub(val, q1), iqr)

\* score = (q1 - val) / iqr
LowerScore(val, q1, iqr) == FDiv(FSub(q1, val), iqr)

\* One pass of the loop body of _detect_iqr for index i.  statistics.quantiles
\* raises StatisticsError for fewer than two data points.
IqrBody(vals, window, threshold, i) ==
    LET w == WindowVals(vals, i, window)
        q1 == Q1(w)
        q3 == Q3(w)
        iqr == Iqr(q1, q3)
        val == vals[i + 1]
    IN IF IqrTooShort(w) THEN Pass(<<>>)
       ELSE IF Len(w) < 2 THEN Raise("StatisticsError")
       ELSE IF IqrFlat(iqr) THEN Pass(<<>>)
       ELSE IF IqrUpper(val, q3, iqr, threshold)
            THEN IF iqr = RZero THEN Raise("ZeroDivisionError")
                 ELSE Pass(<< <<i, UpperScore(val, q3, iqr)>> >>)
       ELSE IF IqrLower(val, q1, iqr, threshold)
            THEN IF iqr = RZero THEN Raise("ZeroDivisionError")
                 ELSE Pass(<< <<i, LowerScore(val, q1, iqr)>> >>)
       ELSE Pass(<<>>)

-----------------------------------------------------------------------------
(* _fill_missing_days, lines 101-109.  A day is its ordinal; an            *)
(* observation is the tuple <<day, revenue>>.  The days stay far below     *)
(* date.max, where d += timedelta(days=1) would overflow: both callers     *)
(* fail at line 58 before they reach the function with such an end_date.   *)

\* Days an observation can carry: 0 .. MaxDay
MaxDay == 3
\* Longest list of observations handed to _fill_missing_days
MaxObs == 2

Days == 0..MaxDay
Revenues == {RInt(10), RInt(20)}
Observations == Days \X Revenues

\* The worked example of the specification: <<series, start_date, end_date>>
ExampleFills == { << << <<2, RInt(10)>>, <<4, RInt(20)>> >>, 1, 5 >> }

\* idx = {s[0]: s[1] for s in series}: a later tuple of a day replaces an earlier one
RECURSIVE DictOf(_)
DictOf(obs) ==
    IF obs = <<>> THEN <<>>
    ELSE LET before == DictOf(SubSeq(obs, 1, Len(obs) - 1))
             last == obs[Len(obs)]
         IN [day \in (DOMAIN before) \cup {last[1]} |->
                IF day = last[1] THEN last[2] ELSE before[day]]

\* Mutant of DictGet: a missing day takes the revenue of the day before it
DictGetCarry(dict, day) ==
    IF day \in DOMAIN dict THEN dict[day]
    ELSE IF day - 1 \in DOMAIN dict THEN dict[day - 1] ELSE RZero

\* idx.get(d, 0.0)
DictGet(dict, day) == IF day \in DOMAIN dict THEN dict[day] ELSE RZero

\* Mutant of FillContinues: the loop stops one day early
FillContinuesExclusive(day, last) == day < last

\* while d <= end_date
FillContinues(day, last) == day <= last

-----------------------------------------------------------------------------
(* State: one call of one of the functions, run to its return, or one      *)
(* request to one of the endpoints, run to its response.                   *)

VARIABLES
    fn,           \* the function called, or the handler of the request
    pc,           \* "loop": in its loop; "done": returned; "raised": left by an exception;
                  \* of a request: "received", "query1", "query2", "responded"
    error,        \* the exception raised, "none" when none
    series_vals,  \* detectors: the values
    window,
    threshold,
    i,            \* detectors: the loop index
    anomalies,    \* detectors: the list being built, then returned
    series,       \* _fill_missing_days: the observations
    start_date,
    end_date,
    d,            \* _fill_missing_days: the day of the loop
    idx,          \* _fill_missing_days: day -> revenue
    out,          \* _fill_missing_days: the list being built, then returned
    method,       \* detect_anomalies: the method parameter
    queries,      \* a request: the number of db.execute calls issued
    response,     \* a request: the response sent
    request,      \* a request: the query parameters as they were sent
    outcomes,     \* a request: the outcomes of its db.execute calls, in order
    calls,        \* a sequence of calls: the calls that have returned
    pair          \* two concurrent requests: the locals of each

detectVars == <<series_vals, window, threshold, i, anomalies>>
fillVars == <<series, start_date, end_date, d, idx, out>>
reqVars == <<method, queries, response>>
auxVars == <<request, outcomes, calls, pair>>
vars == <<fn, pc, error, detectVars, fillVars, reqVars, auxVars>>

NoResponse == [status |-> 0]

\* A query parameter that was not sent
NoMethod == ""
NoWindow == -1000
NoThreshold == <<0, 0>>
NoDate == -1
NoRequest ==
    [method |-> NoMethod, window |-> NoWindow, threshold |-> NoThreshold,
     start_date |-> NoDate, end_date |-> NoDate]

Detectors == {"_detect_zscore", "_detect_iqr"}

\* A call of a detector, at the top of its loop.
InitDetect ==
    /\ fn \in Detectors
    /\ \/ /\ series_vals \in SeqsUpTo(Vals, MaxLen)
          /\ window \in Windows
          /\ threshold \in Thresholds
       \/ \E ex \in ExampleRuns :
             /\ series_vals = ex[1]
             /\ window = ex[2]
             /\ threshold = ex[3]
    /\ \A k \in 1..Len(series_vals) : IsFloat(series_vals[k])
    /\ IsFloat(threshold)
    /\ pc = "loop" /\ error = "none"
    /\ i = 0
    /\ anomalies = <<>>
    /\ series = <<>> /\ start_date = 0 /\ end_date = 0
    /\ d = 0 /\ idx = <<>> /\ out = <<>>
    /\ method = "none" /\ queries = 0 /\ response = NoResponse
    /\ request = NoRequest /\ outcomes = <<>> /\ calls = <<>> /\ pair = <<>>

\* A call of _fill_missing_days, at the top of its loop (lines 103-105 done).
InitFill ==
    /\ fn = "_fill_missing_days"
    /\ \/ /\ series \in SeqsUpTo(Observations, MaxObs)
          /\ start_date \in Days
          /\ end_date \in Days
       \/ \E ex \in ExampleFills :
             /\ series = ex[1]
             /\ start_date = ex[2]
             /\ end_date = ex[3]
    /\ \A k \in 1..Len(series) : IsFloat(series[k][2])
    /\ pc = "loop" /\ error = "none"
    /\ d = start_date
    /\ idx = DictOf(series)
    /\ out = <<>>
    /\ series_vals = <<>> /\ window = 0 /\ threshold = RZero
    /\ i = 0 /\ anomalies = <<>>
    /\ method = "none" /\ queries = 0 /\ response = NoResponse
    /\ request = NoRequest /\ outcomes = <<>> /\ calls = <<>> /\ pair = <<>>

Init == InitDetect \/ InitFill

\* Mutant of NewList: the list of the call before is used again
NewListKept(previous) == previous

\* anomalies = [] (lines 120, 145): every call builds its own list
NewList(previous) == <<>>

\* for i in range(n): one pass of _detect_zscore's loop
ZscoreStep ==
    /\ fn = "_detect_zscore" /\ pc = "loop"
    /\ i < Len(series_vals)
    /\ LET body == ZscoreBody(series_vals, window, threshold, i)
       IN /\ anomalies' = anomalies \o body.add
          /\ error' = body.raised
          /\ pc' = IF body.raised = "none" THEN "loop" ELSE "raised"
    /\ i' = i + 1
    /\ UNCHANGED <<fn, series_vals, window, threshold, fillVars, reqVars, auxVars>>

\* for i in range(n): one pass of _detect_iqr's loop
IqrStep ==
    /\ fn = "_detect_iqr" /\ pc = "loop"
    /\ i < Len(series_vals)
    /\ LET body == IqrBody(series_vals, window, threshold, i)
       IN /\ anomalies' = anomalies \o body.add
          /\ error' = body.raised
          /\ pc' = IF body.raised = "none" THEN "loop" ELSE "raised"
    /\ i' = i + 1
    /\ UNCHANGED <<fn, series_vals, window, threshold, fillVars, reqVars, auxVars>>

\* return anomalies
DetectReturn ==
    /\ fn \in Detectors /\ pc = "loop"
    /\ i = Len(series_vals)
    /\ pc' = "done"
    /\ UNCHANGED <<fn, error, detectVars, fillVars, reqVars, auxVars>>

\* while d <= end_date: out.append((d, idx.get(d, 0.0))); d += timedelta(days=1)
FillStep ==
    /\ fn = "_fill_missing_days" /\ pc = "loop"
    /\ FillContinues(d, end_date)
    /\ out' = Append(out, <<d, DictGet(idx, d)>>)
    /\ d' = d + 1
    /\ UNCHANGED <<fn, pc, error, detectVars, series, start_date, end_date, idx, reqVars, auxVars>>

\* return out
FillReturn ==
    /\ fn = "_fill_missing_days" /\ pc = "loop"
    /\ ~FillContinues(d, end_date)
    /\ pc' = "done"
    /\ UNCHANGED <<fn, error, detectVars, fillVars, reqVars, auxVars>>

Next == ZscoreStep \/ IqrStep \/ DetectReturn \/ FillStep \/ FillReturn

Spec == Init /\ [][Next]_vars

-----------------------------------------------------------------------------
(* A sequence of calls of the detectors, one after the other.              *)

\* Number of calls in a sequence
MaxCalls == 3

\* The calls of a sequence: <<series_vals, window, threshold>>
RepeatRuns == ExampleRuns \cup {<<IntSeq(<<0, 0, 0, 4, 13>>), 4, <<1, 2>>>>}

InitRepeat ==
    /\ fn \in Detectors
    /\ \E run \in RepeatRuns :
          /\ series_vals = run[1]
          /\ window = run[2]
          /\ threshold = run[3]
    /\ pc = "loop" /\ error = "none"
    /\ i = 0
    /\ anomalies = <<>>
    /\ series = <<>> /\ start_date = 0 /\ end_date = 0
    /\ d = 0 /\ idx = <<>> /\ out = <<>>
    /\ method = "none" /\ queries = 0 /\ response = NoResponse
    /\ request = NoRequest /\ outcomes = <<>> /\ calls = <<>> /\ pair = <<>>

\* The call has returned and a detector is called again (lines 118-120,
\* 143-145): the arguments are new, the list is new
CallAgain ==
    /\ fn \in Detectors /\ pc = "done"
    /\ Len(calls) + 1 < MaxCalls
    /\ calls' = Append(calls, [fn |-> fn, series_vals |-> series_vals,
                               window |-> window, threshold |-> threshold,
                               result |-> anomalies])
    /\ fn' \in Detectors
    /\ \E run \in RepeatRuns :
          /\ series_vals' = run[1]
          /\ window' = run[2]
          /\ threshold' = run[3]
    /\ i' = 0
    /\ anomalies' = NewList(anomalies)
    /\ pc' = "loop"
    /\ UNCHANGED <<error, fillVars, reqVars, request, outcomes, pair>>

NextRepeat == ZscoreStep \/ IqrStep \/ DetectReturn \/ CallAgain

SpecRepeat == InitRepeat /\ [][NextRepeat]_vars

-----------------------------------------------------------------------------

(* The endpoints, lines 169-250: one request, from its arrival to its      *)
(* response.  A handler runs without interruption between two awaits; its  *)
(* awaits are the db.execute calls of _get_daily_revenue (lines 73, 94).   *)
(* The response of a request is [status, body] or [status, detail]: 200    *)
(* with the value the handler returns, 422 for a parameter the Query       *)
(* declarations reject (the handler is then not entered), 400 for the      *)
(* HTTPException of line 211, 500 for an exception that leaves the handler.*)

\* The orders table holds completed orders on the last Span + 1 days only,
\* and on at most MaxRows of them
Span == 4
MaxRows == 2

\* today = date.today(), as a day ordinal
Today == 100
\* today - timedelta(days=89)
DefaultSpan == 89
\* window: int = Query(7, ge=2, le=90)
WindowMin == 2
WindowMax == 90

ReqDays == (Today - Span)..Today
ReqDates == {NoDate} \cup ReqDays
\* An end_date before the default start_date
BeforeDefault == Today - DefaultSpan - 1
ReqEnds == ReqDates \cup {BeforeDefault}
ReqMethods == {"zscore", "iqr", "median"}
ReqWindows == {0, 1, 4, 91}
ReqThresholds == {RInt(-1), RZero, <<1, 2>>, RInt(3)}
\* SUM(o.total_amount) of a day with completed orders
RowRevenues == {RInt(4), RInt(13)}

\* method: str = Query("zscore", regex="^(zscore|iqr)$")
ValidMethod(m) == m \in {"zscore", "iqr"}

\* Mutant of ValidWindow: any window is accepted
ValidWindowAny(w) == TRUE

\* window: int = Query(7, ge=2, le=90)
ValidWindow(w) == w >= WindowMin /\ w <= WindowMax

\* threshold: float = Query(3.0, gt=0)
ValidThreshold(t) == RGt(t, RZero)

ValidConfig(m, w, t) == ValidMethod(m) /\ ValidWindow(w) /\ ValidThreshold(t)

\* if end_date is None: end_date = today
DefaultEnd(e) == IF e = NoDate THEN Today ELSE e
\* if start_date is None: start_date = today - timedelta(days=89)
\* Mutant of DefaultStart: the default range starts 90 days before today
DefaultStartNinety(b) == IF b = NoDate THEN Today - 90 ELSE b

\* Mutant of DefaultStart: the default range is the 90 days ending at the
\* end date of the request
DefaultStartFromEnd(b) == IF b = NoDate THEN DefaultEnd(end_date) - DefaultSpan ELSE b

DefaultStart(b) == IF b = NoDate THEN Today - DefaultSpan ELSE b

\* Mutant of RangeInvalid: the range is not checked
RangeNeverInvalid(b, e) == FALSE

\* if start_date > end_date
RangeInvalid(b, e) == b > e

\* The rows a query can return for [b, e]: one row <<day, revenue>> for each
\* day of the range that has completed orders, in the order of the days
\* (WHERE ... >= :start_dt AND ... < :end_dt_plus_one GROUP BY day ORDER BY day)
RECURSIVE RowsOf(_, _, _)
RowsOf(table, day, last) ==
    IF day > last THEN <<>>
    ELSE (IF day \in DOMAIN table THEN << <<day, table[day]>> >> ELSE <<>>)
         \o RowsOf(table, day + 1, last)
RowSets(b, e) ==
    LET inRange == {day \in ReqDays : b <= day /\ day <= e}
    IN {RowsOf(table, Today - Span, Today) :
            table \in UNION {[present -> RowRevenues] :
                                present \in {p \in SUBSET inRange : Cardinality(p) <= MaxRows}}}

\* Mutant of FillMissingDays: the end day is left out
FillMissingDaysOpen(obs, b, e) ==
    [k \in 1..(IF e > b THEN e - b ELSE 0) |->
        <<b + k - 1, DictGet(DictOf(obs), b + k - 1)>>]

\* _fill_missing_days(series, start_date, end_date), run to its return: the
\* passes of its loop for the days first .. last, taken by halves so that a
\* range of ninety days is evaluated without deep recursion
RECURSIVE FillRange(_, _, _, _)
FillRange(dict, first, last, end) ==
    IF first > last THEN <<>>
    ELSE IF first = last
    THEN (IF FillContinues(first, end) THEN << <<first, DictGet(dict, first)>> >> ELSE <<>>)
    ELSE LET mid == (first + last) \div 2
         IN FillRange(dict, first, mid, end) \o FillRange(dict, mid + 1, last, end)
FillMissingDays(obs, b, e) == FillRange(DictOf(obs), b, e, e)

\* _detect_zscore / _detect_iqr run to their return: the passes of the loop
\* for the indices first .. last, taken by halves; an exception ends the run.
\* The detector is chosen as at lines 219-224: anything but "zscore" takes
\* the IQR detector.
RECURSIVE DetectRange(_, _, _, _, _, _)
DetectRange(m, vals, w, t, first, last) ==
    IF first > last THEN Pass(<<>>)
    ELSE IF first = last
    THEN (IF m = "zscore" THEN ZscoreBody(vals, w, t, first)
          ELSE IqrBody(vals, w, t, first))
    ELSE LET mid == (first + last) \div 2
             left == DetectRange(m, vals, w, t, first, mid)
             right == DetectRange(m, vals, w, t, mid + 1, last)
         IN IF left.raised # "none" THEN left
            ELSE [raised |-> right.raised, add |-> left.add \o right.add]
RunDetector(m, vals, w, t) == DetectRange(m, vals, w, t, 0, Len(vals) - 1)

\* The digits after the point of rest/den, den a power of two
RECURSIVE FracDigits(_, _)
FracDigits(rest, den) ==
    IF rest = 0 THEN ""
    ELSE ToString((10 * rest) \div den) \o FracDigits((10 * rest) % den, den)

\* {threshold} in the f-string: repr of a non-negative float that repr does not
\* write with an exponent and whose decimal expansion is its shortest repr
FloatRepr(t) ==
    ToString(t[1] \div t[2]) \o "."
        \o (IF t[1] % t[2] = 0 THEN "0" ELSE FracDigits(t[1] % t[2], t[2]))

\* f"{method} (window={window}, threshold={threshold})"
Reason(m, w, t) ==
    m \o " (window=" \o ToString(w) \o ", threshold=" \o FloatRepr(t) \o ")"

\* Mutant of FormatPoint: the day and revenue of the point before the index
FormatPointBefore(days, values, m, w, t, a) ==
    [day |-> days[IF a[1] = 0 THEN 1 ELSE a[1]],
     revenue |-> values[IF a[1] = 0 THEN 1 ELSE a[1]],
     score |-> a[2], reason |-> Reason(m, w, t)]

\* lines 228-236 and 241: the point of anomaly a = <<index, score>>
FormatPoint(days, values, m, w, t, a) ==
    [day |-> days[a[1] + 1], revenue |-> values[a[1] + 1],
     score |-> a[2], reason |-> Reason(m, w, t)]

\* Mutant of SeriesModel: the days without revenue are left out
SeriesModelObserved(filled) ==
    LET kept == SelectSeq(filled, LAMBDA e : e[2] # RZero)
    IN [k \in 1..Len(kept) |-> [day |-> kept[k][1], revenue |-> kept[k][2]]]

\* [{"day": d, "revenue": v} for d, v in series]
SeriesModel(filled) ==
    [k \in 1..Len(filled) |-> [day |-> filled[k][1], revenue |-> filled[k][2]]]

\* lines 216-217: days and values of the filled series
DaysOf(filled) == [k \in 1..Len(filled) |-> filled[k][1]]
ValuesOf(filled) == [k \in 1..Len(filled) |-> filled[k][2]]

\* Mutant of DetectionResult: the anomalies are listed latest first
DetectionResultLatestFirst(filled, raw_anoms, m, w, t) ==
    [series |-> SeriesModel(filled),
     anomalies |-> [k \in 1..Len(raw_anoms) |->
                       FormatPoint(DaysOf(filled), ValuesOf(filled), m, w, t,
                                   raw_anoms[Len(raw_anoms) + 1 - k])],
     method |-> m, window |-> w, threshold |-> t]

\* lines 226-250: the value detect_anomalies returns
DetectionResult(filled, raw_anoms, m, w, t) ==
    [series |-> SeriesModel(filled),
     anomalies |-> [k \in 1..Len(raw_anoms) |->
                       FormatPoint(DaysOf(filled), ValuesOf(filled), m, w, t, raw_anoms[k])],
     method |-> m, window |-> w, threshold |-> t]

Handlers == {"detect_anomalies", "get_revenue_series"}

\* method: str = Query("zscore", ...): the value bound to the parameter
MethodParam(m) == IF m = NoMethod THEN "zscore" ELSE m
\* window: int = Query(7, ...)
WindowParam(w) == IF w = NoWindow THEN 7 ELSE w
\* threshold: float = Query(3.0, ...)
ThresholdParam(t) == IF t = NoThreshold THEN RInt(3) ELSE t

\* The requests to /anomalies/detect: every combination of the values sent
\* with both dates sent; requests that leave a date out, with every parameter
\* left out or with the IQR method; requests that leave one parameter out
DetectRequests ==
    [method : ReqMethods, window : ReqWindows, threshold : ReqThresholds,
     start_date : ReqDays, end_date : ReqDays \cup {BeforeDefault}]
    \cup
    [method : {NoMethod}, window : {NoWindow}, threshold : {NoThreshold},
     start_date : {NoDate, Today - Span}, end_date : {NoDate, Today - 1, BeforeDefault}]
    \cup
    [method : {"iqr"}, window : {4}, threshold : {<<1, 2>>},
     start_date : {NoDate, Today - Span}, end_date : {NoDate, Today - 1, BeforeDefault}]
    \cup
    {[method |-> "iqr", window |-> NoWindow, threshold |-> <<1, 2>>,
      start_date |-> Today - Span, end_date |-> Today],
     [method |-> NoMethod, window |-> 4, threshold |-> NoThreshold,
      start_date |-> Today - Span, end_date |-> Today]}

\* The requests to /anomalies/series
SeriesRequests ==
    [method : {NoMethod}, window : {NoWindow}, threshold : {NoThreshold},
     start_date : ReqDates, end_date : ReqEnds]

\* A request has arrived and its query parameters are bound to the parameters
\* of the handler; get_revenue_series has the two dates only.
InitReq ==
    /\ fn \in Handlers
    /\ request \in IF fn = "detect_anomalies" THEN DetectRequests ELSE SeriesRequests
    /\ IF fn = "detect_anomalies"
       THEN /\ method = MethodParam(request.method)
            /\ window = WindowParam(request.window)
            /\ threshold = ThresholdParam(request.threshold)
       ELSE method = "none" /\ window = 0 /\ threshold = RZero
    /\ start_date = request.start_date
    /\ end_date = request.end_date
    /\ pc = "received" /\ error = "none"
    /\ queries = 0 /\ response = NoResponse
    /\ series = <<>> /\ out = <<>> /\ series_vals = <<>> /\ anomalies = <<>>
    /\ i = 0 /\ d = 0 /\ idx = <<>>
    /\ outcomes = <<>> /\ calls = <<>> /\ pair = <<>>

\* detect_anomalies up to its first await: the Query declarations
\* (lines 189-191), the defaults (204-208), the range check (210-211) and the
\* first db.execute of _get_daily_revenue (line 73)
DetectReceive ==
    /\ fn = "detect_anomalies" /\ pc = "received"
    /\ IF ~ValidConfig(method, window, threshold)
       THEN /\ response' = [status |-> 422, detail |-> "validation error"]
            /\ pc' = "responded"
            /\ UNCHANGED <<start_date, end_date, queries>>
       ELSE LET b == DefaultStart(start_date)
                e == DefaultEnd(end_date)
            IN /\ start_date' = b
               /\ end_date' = e
               /\ IF RangeInvalid(b, e)
                  THEN /\ response' = [status |-> 400,
                                       detail |-> "start_date must be <= end_date"]
                       /\ pc' = "responded"
                       /\ UNCHANGED queries
                  ELSE /\ pc' = "query1"
                       /\ queries' = queries + 1
                       /\ UNCHANGED response
    /\ UNCHANGED <<fn, error, detectVars, series, d, idx, out, method, auxVars>>

\* get_revenue_series up to its first await: the defaults (lines 176-180) and
\* the first db.execute of _get_daily_revenue (line 73)
SeriesReceive ==
    /\ fn = "get_revenue_series" /\ pc = "received"
    /\ start_date' = DefaultStart(start_date)
    /\ end_date' = DefaultEnd(end_date)
    /\ pc' = "query1"
    /\ queries' = queries + 1
    /\ UNCHANGED <<fn, error, detectVars, series, d, idx, out, method, response,
                   auxVars>>

\* The rest of the handler once _get_daily_revenue has returned rows:
\* lines 182-184 of get_revenue_series, lines 215-250 of detect_anomalies
HandlerCompletes(rows) ==
    /\ series' = rows
    /\ out' = FillMissingDays(rows, start_date, end_date)
    /\ pc' = "responded"
    /\ IF fn = "get_revenue_series"
       THEN /\ response' = [status |-> 200, body |-> SeriesModel(out')]
            /\ UNCHANGED <<series_vals, anomalies, error>>
       ELSE /\ series_vals' = ValuesOf(out')
            /\ LET run == RunDetector(method, series_vals', window, threshold)
               IN /\ error' = run.raised
                  /\ anomalies' = run.add
                  /\ response' =
                        IF error' = "none"
                        THEN [status |-> 200,
                              body |-> DetectionResult(out', anomalies', method,
                                                       window, threshold)]
                        ELSE [status |-> 500, detail |-> "Internal Server Error"]
    /\ UNCHANGED <<fn, window, threshold, i, start_date, end_date, d, idx,
                   method, queries, request, calls, pair>>

\* Mutant of NeedsFallback: the fallback query is issued after every first query
NeedsFallbackAlways(rows) == TRUE

\* 'if rows: return ...' (lines 78-79): the fallback follows when rows is empty
NeedsFallback(rows) == rows = <<>>

\* The outcome of a db.execute call: an exception, or the rows of fetchall()
Outcome(ok, rows) == [raised |-> ~ok, rows |-> IF ok THEN rows ELSE <<>>]

\* The first query returns (lines 72-79): an exception leaves rows empty;
\* rows that are not empty are returned, otherwise the fallback query is
\* issued (line 94)
FirstQueryReturns ==
    /\ pc = "query1"
    /\ \E ok \in BOOLEAN, rows \in RowSets(start_date, end_date) :
          LET got == IF ok THEN rows ELSE <<>>
          IN /\ outcomes' = Append(outcomes, Outcome(ok, rows))
             /\ IF NeedsFallback(got)
                THEN /\ pc' = "query2"
                     /\ queries' = queries + 1
                     /\ UNCHANGED <<fn, error, detectVars, fillVars, method, response,
                                    request, calls, pair>>
                ELSE HandlerCompletes(got)

\* The fallback query returns (lines 94-96): its rows are returned, its
\* exception leaves _get_daily_revenue and the handler
FallbackReturns ==
    /\ pc = "query2"
    /\ \E ok \in BOOLEAN, rows \in RowSets(start_date, end_date) :
          /\ outcomes' = Append(outcomes, Outcome(ok, rows))
          /\ IF ok
             THEN HandlerCompletes(rows)
             ELSE /\ error' = "DBAPIError"
                  /\ response' = [status |-> 500, detail |-> "Internal Server Error"]
                  /\ pc' = "responded"
                  /\ UNCHANGED <<fn, detectVars, fillVars, method, queries,
                                 request, calls, pair>>

NextReq == DetectReceive \/ SeriesReceive \/ FirstQueryReturns \/ FallbackReturns

SpecReq == InitReq /\ [][NextReq]_vars

-----------------------------------------------------------------------------
(* Two requests to /anomalies/detect in flight at once.  Each has the       *)
(* locals of its own call of the handler and the session its own call of   *)
(* get_db yields (src/backend/db.py, lines 156-158); a handler is          *)
(* suspended at its db.execute calls, where the other may run.  The        *)
(* database answers a session with the rows of the statement that session  *)
(* executed last.                                                          *)

PairIds == {1, 2}

\* The requests of a pair: a z-score request over three days, an IQR request
\* over two, a request with start_date > end_date
PairRequests ==
    {[method |-> "zscore", window |-> 4, threshold |-> <<1, 2>>,
      start_date |-> Today - 2, end_date |-> Today],
     [method |-> "iqr", window |-> 4, threshold |-> <<1, 2>>,
      start_date |-> Today - 1, end_date |-> Today],
     [method |-> NoMethod, window |-> NoWindow, threshold |-> NoThreshold,
      start_date |-> Today, end_date |-> Today - 1]}

\* Mutant of SessionOf: the requests share one session
SessionShared(r) == 1

\* async with AsyncSessionLocal() as session: yield session - one session
\* for each request
SessionOf(r) == r

NoQuery == <<NoDate, NoDate>>

\* The locals of the handler for query parameters q, before it is entered
Locals(q) ==
    [request |-> q, pc |-> "received",
     method |-> MethodParam(q.method), window |-> WindowParam(q.window),
     threshold |-> ThresholdParam(q.threshold),
     start_date |-> q.start_date, end_date |-> q.end_date,
     session |-> 0, series |-> <<>>, response |-> NoResponse]

InitPair ==
    /\ \E sent \in [PairIds -> PairRequests] :
          pair = [locals |-> [r \in PairIds |-> Locals(sent[r])],
                  inflight |-> [s \in PairIds |-> NoQuery]]
    /\ fn = "detect_anomalies" /\ pc = "concurrent" /\ error = "none"
    /\ series_vals = <<>> /\ window = 0 /\ threshold = RZero
    /\ i = 0 /\ anomalies = <<>>
    /\ series = <<>> /\ start_date = 0 /\ end_date = 0
    /\ d = 0 /\ idx = <<>> /\ out = <<>>
    /\ method = "none" /\ queries = 0 /\ response = NoResponse
    /\ request = NoRequest /\ outcomes = <<>> /\ calls = <<>>

pairFrame == <<fn, pc, error, detectVars, fillVars, reqVars, request, outcomes, calls>>

\* detect_anomalies of request r up to its first await (lines 187-214, 73)
PairReceive ==
    \E r \in PairIds :
        LET l == pair.locals[r]
            b == DefaultStart(l.start_date)
            e == DefaultEnd(l.end_date)
            s == SessionOf(r)
        IN /\ l.pc = "received"
           /\ IF ~ValidConfig(l.method, l.window, l.threshold)
              THEN pair' = [pair EXCEPT !.locals[r].pc = "responded",
                                        !.locals[r].response =
                                            [status |-> 422, detail |-> "validation error"]]
              ELSE IF RangeInvalid(b, e)
              THEN pair' = [pair EXCEPT !.locals[r].pc = "responded",
                                        !.locals[r].start_date = b,
                                        !.locals[r].end_date = e,
                                        !.locals[r].response =
                                            [status |-> 400,
                                             detail |-> "start_date must be <= end_date"]]
              ELSE pair' = [pair EXCEPT !.locals[r].pc = "query1",
                                        !.locals[r].start_date = b,
                                        !.locals[r].end_date = e,
                                        !.locals[r].session = s,
                                        !.inflight[s] = <<b, e>>]
           /\ UNCHANGED pairFrame

\* The rest of the handler of a request with locals l once rows are returned
\* (lines 215-250)
PairCompletes(l, rows) ==
    LET filled == FillMissingDays(rows, l.start_date, l.end_date)
        run == RunDetector(l.method, ValuesOf(filled), l.window, l.threshold)
    IN [l EXCEPT !.pc = "responded",
                 !.series = rows,
                 !.response =
                     IF run.raised = "none"
                     THEN [status |-> 200,
                           body |-> DetectionResult(filled, run.add, l.method,
                                                    l.window, l.threshold)]
                     ELSE [status |-> 500, detail |-> "Internal Server Error"]]

\* The first query of request r returns (lines 72-79, 94)
PairFirstQueryReturns ==
    \E r \in PairIds :
        LET l == pair.locals[r]
            asked == pair.inflight[l.session]
        IN /\ l.pc = "query1"
           /\ \E ok \in BOOLEAN, rows \in RowSets(asked[1], asked[2]) :
                 LET got == IF ok THEN rows ELSE <<>>
                 IN IF NeedsFallback(got)
                    THEN pair' = [pair EXCEPT !.locals[r].pc = "query2",
                                              !.inflight[l.session] =
                                                  <<l.start_date, l.end_date>>]
                    ELSE pair' = [pair EXCEPT !.locals[r] = PairCompletes(l, got)]
           /\ UNCHANGED pairFrame

\* The fallback query of request r returns (lines 94-96)
PairFallbackReturns ==
    \E r \in PairIds :
        LET l == pair.locals[r]
            asked == pair.inflight[l.session]
        IN /\ l.pc = "query2"
           /\ \E ok \in BOOLEAN, rows \in RowSets(asked[1], asked[2]) :
                 IF ok
                 THEN pair' = [pair EXCEPT !.locals[r] = PairCompletes(l, rows)]
                 ELSE pair' = [pair EXCEPT !.locals[r].pc = "responded",
                                           !.locals[r].response =
                                               [status |-> 500,
                                                detail |-> "Internal Server Error"]]
           /\ UNCHANGED pairFrame

NextPair == PairReceive \/ PairFirstQueryReturns \/ PairFallbackReturns

SpecPair == InitPair /\ [][NextPair]_vars

-----------------------------------------------------------------------------

(* Properties.  Those about verdicts are stated for the call that has      *)
(* returned: the result then holds the verdict of every index.             *)

\* The entries of a result for index j
EntriesAt(anoms, j) == SelectSeq(anoms, LAMBDA e : e[1] = j)

\* The loop body of detector f
Body(f, vals, w, t, j) ==
    IF f = "_detect_zscore" THEN ZscoreBody(vals, w, t, j) ELSE IqrBody(vals, w, t, j)

Returned(f) == fn = f /\ pc = "done"
DetectorReturned == fn \in Detectors /\ pc = "done"

Indices == 0..(Len(series_vals) - 1)

\* series_vals with every value after index j replaced by v
FutureReplaced(j, v) ==
    [k \in 1..Len(series_vals) |-> IF k <= j + 1 THEN series_vals[k] ELSE v]

\* C1 - Causal window: for both detectors, whether index j is flagged and
\* with which score does not depend on the values after j: the entries the
\* run produced for j are those of the series cut after j, and those of the
\* series with the later values replaced (so two series that agree on 0..j
\* agree on every verdict up to j).
C1_CausalWindow ==
    DetectorReturned =>
        \A j \in Indices :
            LET verdict == Pass(EntriesAt(anomalies, j))
            IN /\ Body(fn, SubSeq(series_vals, 1, j + 1), window, threshold, j) = verdict
               /\ \A v \in Vals :
                     Body(fn, FutureReplaced(j, v), window, threshold, j) = verdict

\* C1 witness: a returned run that flagged an index with values after it
C1_Witness ==
    /\ DetectorReturned
    /\ \E j \in 0..(Len(series_vals) - 2) : EntriesAt(anomalies, j) # <<>>

\* The values before index j that the specification calls W:
\* values[max(0, j - window) .. j)
PrecedingW(j) ==
    LET first == IF j - window > 0 THEN j - window ELSE 0
    IN [k \in 1..(IF j > first THEN j - first ELSE 0) |-> series_vals[first + k]]

\* mean(W), std(W) and z of the specification, in the code's arithmetic
SpecMean(W) == FDiv(FSum(W), RInt(Len(W)))
PopulationVariance(W) ==
    LET m == SpecMean(W)
    IN FDiv(FSum([k \in 1..Len(W) |-> FMul(FSub(W[k], m), FSub(W[k], m))]),
            RInt(Len(W)))
PopulationStd(W) ==
    LET pv == PopulationVariance(W)
    IN IF RGt(pv, RZero) THEN FSqrt(pv) ELSE RZero
SpecZ(v, W, sd) == FDiv(FSub(v, SpecMean(W)), sd)

ExampleNormal == IntSeq(<<10, 12, 11, 13, 12, 50>>)

\* C2 - Z-score rule: for every index j whose preceding window W has
\* |W| >= 2 and std(W) # 0, the result holds (j, z) if and only if
\* |z| >= threshold, z = (values[j] - mean(W)) / std(W), and the score is that
\* z; values = [10,12,11,13,12,50], window 5, threshold 2 flags index 5 with
\* the score (50 - mean)/std over [10,12,11,13,12].
C2_ZscoreRule ==
    Returned("_detect_zscore") =>
        /\ \A j \in Indices :
              LET W == PrecedingW(j)
                  sd == PopulationStd(W)
                  z == SpecZ(series_vals[j + 1], W, sd)
              IN (Len(W) >= 2 /\ sd # RZero) =>
                    EntriesAt(anomalies, j) =
                        IF RGe(RAbs(z), threshold) THEN << <<j, z>> >> ELSE <<>>
        /\ (series_vals = ExampleNormal /\ window = 5 /\ threshold = RInt(2)) =>
              LET W == SubSeq(ExampleNormal, 1, 5)
              IN EntriesAt(anomalies, 5) =
                    << <<5, FDiv(FSub(RInt(50), SpecMean(W)), PopulationStd(W))>> >>

\* C2 witness: the worked example has returned with index 5 flagged, and a
\* point below the threshold was left out
C2_Witness ==
    /\ Returned("_detect_zscore") /\ series_vals = ExampleNormal
    /\ EntriesAt(anomalies, 5) # <<>>
    /\ \E j \in 2..4 : EntriesAt(anomalies, j) = <<>>

\* The fences of the specification for value v and quartiles q1, q3
AboveFence(v, q3, iqr) == RGt(v, FAdd(q3, FMul(threshold, iqr)))
BelowFence(v, q1, iqr) == RLt(v, FSub(q1, FMul(threshold, iqr)))

\* C3 - IQR rule: for every index j whose preceding window W has |W| >= 4
\* and IQR # 0, j is flagged if and only if v > Q3 + threshold*IQR (score
\* (v - Q3)/IQR) or v < Q1 - threshold*IQR (score (Q1 - v)/IQR); the
\* comparisons are strict, no value satisfies both, and a flagged index has
\* exactly one entry.
C3_IqrRule ==
    Returned("_detect_iqr") =>
        \A j \in Indices :
            LET W == Sorted(PrecedingW(j))
                q1 == Quantile(W, 1)
                q3 == Quantile(W, 3)
                iqr == FSub(q3, q1)
                v == series_vals[j + 1]
            IN (Len(W) >= 4 /\ iqr # RZero) =>
                  /\ ~(AboveFence(v, q3, iqr) /\ BelowFence(v, q1, iqr))
                  /\ EntriesAt(anomalies, j) =
                        IF AboveFence(v, q3, iqr)
                        THEN << <<j, FDiv(FSub(v, q3), iqr)>> >>
                        ELSE IF BelowFence(v, q1, iqr)
                        THEN << <<j, FDiv(FSub(q1, v), iqr)>> >>
                        ELSE <<>>

\* C3 witness: a value exactly on the upper fence was not flagged
C3_Witness ==
    /\ Returned("_detect_iqr")
    /\ \E j \in Indices :
          LET W == Sorted(PrecedingW(j))
              q1 == Quantile(W, 1)
              q3 == Quantile(W, 3)
              iqr == FSub(q3, q1)
          IN /\ Len(W) >= 4 /\ iqr # RZero
             /\ series_vals[j + 1] = FAdd(q3, FMul(threshold, iqr))
             /\ EntriesAt(anomalies, j) = <<>>

\* Further cases of the IQR rule that are reached: an upper and a lower outlier
IqrUpperOutlierReached ==
    /\ Returned("_detect_iqr")
    /\ \E e \in 1..Len(anomalies) :
          LET j == anomalies[e][1]
          IN RGt(series_vals[j + 1], Quantile(Sorted(PrecedingW(j)), 3))
IqrLowerOutlierReached ==
    /\ Returned("_detect_iqr")
    /\ \E e \in 1..Len(anomalies) :
          LET j == anomalies[e][1]
          IN RLt(series_vals[j + 1], Quantile(Sorted(PrecedingW(j)), 1))

FillReturned == fn = "_fill_missing_days" /\ pc = "done"

\* C4 - Normaliser contiguity: for start_date <= end_date and any
\* observations, the returned series has (end_date - start_date) + 1 entries,
\* starts at start_date, ends at end_date, each day is the day before plus
\* one, and no day occurs twice.
C4_Contiguous ==
    (FillReturned /\ start_date <= end_date) =>
        /\ Len(out) = (end_date - start_date) + 1
        /\ out[1][1] = start_date
        /\ out[Len(out)][1] = end_date
        /\ \A k \in 2..Len(out) : out[k][1] = out[k - 1][1] + 1
        /\ \A k, m \in 1..Len(out) : out[k][1] = out[m][1] => k = m

\* C4 witness: a range of several days was filled from observations that
\* repeat a day and hold a day outside the range
C4_Witness ==
    /\ FillReturned /\ start_date < end_date /\ Len(out) >= 2
    /\ \E k, m \in 1..Len(series) : k # m /\ series[k][1] = series[m][1]

C4_WitnessOutside ==
    /\ FillReturned /\ start_date < end_date /\ Len(out) >= 2
    /\ \E k \in 1..Len(series) : series[k][1] < start_date \/ series[k][1] > end_date
    /\ \E k, m \in 1..Len(series) : series[k][1] > series[m][1] /\ k < m

\* The positions of the observations of a day
ObservedAt(day) == {k \in 1..Len(series) : series[k][1] = day}

ExampleFillOut ==
    << <<1, RZero>>, <<2, RInt(10)>>, <<3, RZero>>, <<4, RInt(20)>>, <<5, RZero>> >>

\* C5 - Gap filling: for every day of [start_date, end_date] the value
\* emitted is the observed revenue of the day when the day is among the
\* observations (the last tuple of that day) and 0 otherwise; the range 1..5
\* with observations {2: 10, 4: 20} gives [(1,0),(2,10),(3,0),(4,20),(5,0)].
C5_GapFilling ==
    FillReturned =>
        /\ \A day \in start_date..end_date :
              \E k \in 1..Len(out) :
                 /\ out[k][1] = day
                 /\ out[k][2] = IF ObservedAt(day) = {} THEN RZero
                                ELSE series[CHOOSE m \in ObservedAt(day) :
                                               \A n \in ObservedAt(day) : n <= m][2]
        /\ (series = << <<2, RInt(10)>>, <<4, RInt(20)>> >>
              /\ start_date = 1 /\ end_date = 5) => out = ExampleFillOut

\* C5 witness: the worked example has returned
C5_Witness ==
    /\ FillReturned /\ start_date = 1 /\ end_date = 5
    /\ series = << <<2, RInt(10)>>, <<4, RInt(20)>> >>
    /\ Len(out) = 5

AllEqual(W) == \A k, m \in 1..Len(W) : W[k] = W[m]

ExampleFlat == IntSeq(<<1, 1, 1, 1, 1, 100>>)

\* C6 - Zero-std skip: whenever all values of the preceding window of
\* index j are equal, _detect_zscore gives no verdict for j whatever
\* values[j] is, and it never divides by zero; values = [1,1,1,1,1,100],
\* window 5, threshold 3 returns no anomaly.
C6_ZeroStdSkip ==
    /\ fn = "_detect_zscore" => error = "none"
    /\ Returned("_detect_zscore") =>
          /\ \A j \in Indices : AllEqual(PrecedingW(j)) => EntriesAt(anomalies, j) = <<>>
          /\ (series_vals = ExampleFlat /\ window = 5 /\ threshold = RInt(3)) =>
                anomalies = <<>>

\* What the code does keep of C6: no verdict when the computed deviation is
\* zero, no division by zero, and the worked example
C6_ComputedStdSkip ==
    /\ fn = "_detect_zscore" => error = "none"
    /\ Returned("_detect_zscore") =>
          /\ \A j \in Indices :
                (Len(PrecedingW(j)) >= 2 /\ PopulationStd(PrecedingW(j)) = RZero) =>
                    EntriesAt(anomalies, j) = <<>>
          /\ (series_vals = ExampleFlat /\ window = 5 /\ threshold = RInt(3)) =>
                anomalies = <<>>

\* A constant window whose computed mean is not its value: the case C6 fails on
C6_RoundedMeanReached ==
    /\ Returned("_detect_zscore")
    /\ \E j \in Indices :
          LET W == PrecedingW(j)
          IN Len(W) >= 2 /\ AllEqual(W) /\ SpecMean(W) # W[1]
                /\ EntriesAt(anomalies, j) # <<>>

ExampleTie == IntSeq(<<0, 2, 4>>)

\* C7 - Threshold inclusivity: a point whose |z| equals the threshold
\* exactly is in the result of _detect_zscore; the window [0, 2] with value 4
\* and threshold 3 gives z = 3 and is flagged.
C7_ThresholdInclusive ==
    Returned("_detect_zscore") =>
        /\ \A j \in Indices :
              LET W == PrecedingW(j)
                  sd == PopulationStd(W)
                  z == SpecZ(series_vals[j + 1], W, sd)
              IN (Len(W) >= 2 /\ sd # RZero /\ RAbs(z) = threshold) =>
                    \E e \in 1..Len(anomalies) : anomalies[e] = <<j, z>>
        /\ (series_vals = ExampleTie /\ window = 2 /\ threshold = RInt(3)) =>
              anomalies = << <<2, RInt(3)>> >>

\* C7 witness: the run on [0, 2, 4] has returned index 2 with the score 3,
\* which is the threshold
C7_Witness ==
    /\ Returned("_detect_zscore") /\ series_vals = ExampleTie
    /\ threshold = RInt(3)
    /\ \E e \in 1..Len(anomalies) : anomalies[e] = <<2, threshold>>

\* The sample variance and deviation (divisor |W| - 1), for |W| >= 2
SampleStd(W) ==
    LET m == SpecMean(W)
        sv == FDiv(FSum([k \in 1..Len(W) |-> FMul(FSub(W[k], m), FSub(W[k], m))]),
                   RInt(Len(W) - 1))
    IN IF RGt(sv, RZero) THEN FSqrt(sv) ELSE RZero

\* C8 - Population standard deviation: for every window W of size >= 2 the
\* variance _detect_zscore uses is the sum of the squared deviations from
\* mean(W) divided by |W|, and the verdict and the score are those of
\* the square root of that variance.
C8_PopulationStd ==
    Returned("_detect_zscore") =>
        \A j \in Indices :
            LET W == PrecedingW(j)
                sd == PopulationStd(W)
                z == SpecZ(series_vals[j + 1], W, sd)
            IN Len(W) >= 2 =>
                  /\ Variance(WindowVals(series_vals, j, window),
                              Mean(WindowVals(series_vals, j, window)))
                        = PopulationVariance(W)
                  /\ \A e \in 1..Len(anomalies) :
                        anomalies[e][1] = j => (sd # RZero /\ anomalies[e][2] = z)

\* C8 witness: an index is flagged that the sample deviation of its window
\* would have left below the threshold
C8_Witness ==
    /\ Returned("_detect_zscore")
    /\ \E e \in 1..Len(anomalies) :
          LET j == anomalies[e][1]
              W == PrecedingW(j)
              ss == SampleStd(W)
          IN /\ ss # RZero
             /\ RLt(RAbs(FDiv(FSub(series_vals[j + 1], SpecMean(W)), ss)), threshold)

\* C9 - Z-score insufficient history: an index with fewer than 2 values
\* before it (0 and 1) is never in the result of _detect_zscore, for any
\* values, window and threshold, and the call raises no error.
C9_ZscoreShortHistory ==
    fn = "_detect_zscore" =>
        /\ \A e \in 1..Len(anomalies) : anomalies[e][1] >= 2
        /\ error = "none" /\ pc # "raised"

\* C9 witness: a returned run that flagged a later index and whose value at
\* index 1 differs from the one at index 0
C9_Witness ==
    /\ Returned("_detect_zscore") /\ anomalies # <<>>
    /\ Len(series_vals) >= 3 /\ series_vals[2] # series_vals[1]

\* C10 - IQR insufficient history: an index with fewer than 4 values before
\* it (0..3) is never in the result of _detect_iqr, whatever its value, the
\* window and the threshold.
C10_IqrShortHistory ==
    fn = "_detect_iqr" => \A e \in 1..Len(anomalies) : anomalies[e][1] >= 4

\* C10 witness: a returned run that flagged a later index and whose value at
\* index 3 is the largest of the first four
C10_Witness ==
    /\ Returned("_detect_iqr") /\ anomalies # <<>>
    /\ Len(series_vals) >= 5
    /\ \A k \in 1..3 : RGt(series_vals[4], series_vals[k])

\* The r-th smallest value of W (r = 1 .. |W|), counted with repetitions
OrderStat(W, r) ==
    CHOOSE x \in {W[k] : k \in 1..Len(W)} :
        /\ Cardinality({k \in 1..Len(W) : RLt(W[k], x)}) < r
        /\ r <= Cardinality({k \in 1..Len(W) : RLe(W[k], x)})

\* The value at the 1-based position num/4 of sorted W, interpolated linearly
\* between the order statistics on either side of it, in the code's arithmetic
InterpolatedAt(W, num) ==
    LET below == num \div 4
        quarters == num % 4
    IN FDiv(FAdd(FMul(OrderStat(W, below), RInt(4 - quarters)),
                 FMul(OrderStat(W, below + 1), RInt(quarters))),
            RInt(4))

\* C11 - Quartile method: for every index j of a run of _detect_iqr whose
\* preceding window W has |W| >= 4, the Q1 and Q3 the code computes are the
\* values at the 1-based positions (|W|+1)/4 and 3(|W|+1)/4 of sorted W, each
\* interpolated linearly between the two adjacent order statistics and lying
\* between them; IQR = Q3 - Q1, Q1 <= Q3, and IQR is never negative.
C11_QuartileMethod ==
    Returned("_detect_iqr") =>
        \A j \in Indices :
            LET W == PrecedingW(j)
                w == WindowVals(series_vals, j, window)
                q1 == Q1(w)
                q3 == Q3(w)
                iqr == Iqr(q1, q3)
                p1 == Len(W) + 1
                p3 == 3 * (Len(W) + 1)
            IN Len(W) >= 4 =>
                  /\ q1 = InterpolatedAt(W, p1)
                  /\ q3 = InterpolatedAt(W, p3)
                  /\ RLe(OrderStat(W, p1 \div 4), q1)
                  /\ RLe(q1, OrderStat(W, (p1 \div 4) + 1))
                  /\ RLe(OrderStat(W, p3 \div 4), q3)
                  /\ RLe(q3, OrderStat(W, (p3 \div 4) + 1))
                  /\ iqr = FSub(q3, q1)
                  /\ RLe(q1, q3)
                  /\ RGe(iqr, RZero)

\* C11 witness: a returned run with an unsorted window whose Q1 falls
\* strictly between its first two order statistics and below Q3
C11_Witness ==
    /\ Returned("_detect_iqr")
    /\ \E j \in Indices :
          LET W == PrecedingW(j)
          IN /\ Len(W) >= 4
             /\ W # Sorted(W)
             /\ RLt(OrderStat(W, 1), Q1(W))
             /\ RLt(Q1(W), OrderStat(W, 2))
             /\ RLt(Q1(W), Q3(W))
\* ... and a run with a window of five values
C11_WitnessFive ==
    /\ Returned("_detect_iqr")
    /\ \E j \in Indices : Len(PrecedingW(j)) = 5 /\ RLt(Q1(PrecedingW(j)), Q3(PrecedingW(j)))

\* The value at the 1-based position num/4 of sorted W, in exact arithmetic
ExactAt(W, num) ==
    LET below == num \div 4
        quarters == num % 4
    IN RDiv(RAdd(RMul(OrderStat(W, below), RInt(4 - quarters)),
                 RMul(OrderStat(W, below + 1), RInt(quarters))),
            RInt(4))
ExactQ1(W) == ExactAt(W, Len(W) + 1)
ExactQ3(W) == ExactAt(W, 3 * (Len(W) + 1))

\* C12 - Zero-IQR skip: in a run of _detect_iqr, an index j whose preceding
\* window W (|W| >= 4) has Q1 = Q3, in exact arithmetic or as computed, gets
\* no verdict whatever values[j] is; no run divides by a zero IQR (no
\* exception is raised), and every entry returned belongs to a window whose
\* computed IQR is not zero.
C12_ZeroIqrSkip ==
    fn = "_detect_iqr" =>
        /\ error = "none" /\ pc # "raised"
        /\ pc = "done" =>
              \A j \in Indices :
                  LET W == PrecedingW(j)
                  IN Len(W) >= 4 =>
                        /\ (ExactQ1(W) = ExactQ3(W) \/ Q1(W) = Q3(W)) =>
                               EntriesAt(anomalies, j) = <<>>
                        /\ EntriesAt(anomalies, j) # <<>> =>
                               Iqr(Q1(W), Q3(W)) # RZero

\* C12 witness: a returned run skipped an index whose window has Q1 = Q3
\* although its value lies above Q3
C12_Witness ==
    /\ Returned("_detect_iqr")
    /\ \E j \in Indices :
          LET W == PrecedingW(j)
          IN /\ Len(W) >= 4
             /\ ExactQ1(W) = ExactQ3(W)
             /\ RGt(series_vals[j + 1], Q3(W))
             /\ EntriesAt(anomalies, j) = <<>>

\* C13 - IQR sign convention: with threshold > 0, every score in the list of
\* _detect_iqr is strictly positive, for an entry whose value lies below Q1
\* as for one whose value lies above Q3.
C13_IqrScorePositive ==
    (fn = "_detect_iqr" /\ RGt(threshold, RZero)) =>
        \A e \in 1..Len(anomalies) : RGt(anomalies[e][2], RZero)

\* C13 witness: a returned run holds a lower outlier, its score positive
C13_Witness ==
    /\ Returned("_detect_iqr") /\ RGt(threshold, RZero)
    /\ \E e \in 1..Len(anomalies) :
          LET j == anomalies[e][1]
          IN /\ RLt(series_vals[j + 1], Q1(PrecedingW(j)))
             /\ RGt(anomalies[e][2], RZero)

\* Q1, Q3 and IQR of the specification for window W, in the code's arithmetic
SpecQ1(W) == InterpolatedAt(W, Len(W) + 1)
SpecQ3(W) == InterpolatedAt(W, 3 * (Len(W) + 1))
SpecIqr(W) == FSub(SpecQ3(W), SpecQ1(W))

\* The fences of the interval [Q1 - threshold*IQR, Q3 + threshold*IQR]
UpperFence(W) == FAdd(SpecQ3(W), FMul(threshold, SpecIqr(W)))
LowerFence(W) == FSub(SpecQ1(W), FMul(threshold, SpecIqr(W)))

\* The distance of v beyond the nearer fence, in IQR units
BeyondFence(v, W) ==
    IF RGt(v, SpecQ3(W)) THEN FDiv(FSub(v, UpperFence(W)), SpecIqr(W))
    ELSE FDiv(FSub(LowerFence(W), v), SpecIqr(W))

\* The distance of v beyond the nearer quartile, in IQR units
BeyondQuartile(v, W) ==
    IF RGt(v, SpecQ3(W)) THEN FDiv(FSub(v, SpecQ3(W)), SpecIqr(W))
    ELSE FDiv(FSub(SpecQ1(W), v), SpecIqr(W))

\* C14 as stated - IQR score meaning: the score of every anomaly of
\* _detect_iqr is the distance, in IQR units, by which the value lies beyond
\* the nearer fence of [Q1 - threshold*IQR, Q3 + threshold*IQR].
C14_ScoreBeyondFence ==
    Returned("_detect_iqr") =>
        \A e \in 1..Len(anomalies) :
            LET j == anomalies[e][1]
            IN anomalies[e][2] = BeyondFence(series_vals[j + 1], PrecedingW(j))

\* C14 amended - IQR score meaning: the score of every anomaly of
\* _detect_iqr is the distance, in IQR units, by which the value lies beyond
\* the nearer quartile: (v - Q3)/IQR above Q3, (Q1 - v)/IQR below Q1.
C14_ScoreBeyondQuartile ==
    Returned("_detect_iqr") =>
        \A e \in 1..Len(anomalies) :
            LET j == anomalies[e][1]
            IN anomalies[e][2] = BeyondQuartile(series_vals[j + 1], PrecedingW(j))

\* C14 witness: a returned run holds an upper outlier whose score is its
\* distance beyond Q3 and is not its distance beyond the upper fence
C14_Witness ==
    /\ Returned("_detect_iqr")
    /\ \E e \in 1..Len(anomalies) :
          LET j == anomalies[e][1]
              v == series_vals[j + 1]
              W == PrecedingW(j)
          IN /\ RGt(v, UpperFence(W))
             /\ anomalies[e][2] = BeyondQuartile(v, W)
             /\ anomalies[e][2] # BeyondFence(v, W)

-----------------------------------------------------------------------------
(* Properties of a request.                                                *)

Responded(h) == fn = h /\ pc = "responded"
HasBody == "body" \in DOMAIN response

\* The range of the request once the defaults are applied
RangeStart == IF start_date = NoDate THEN Today - DefaultSpan ELSE start_date
RangeEnd == IF end_date = NoDate THEN Today ELSE end_date

\* C15 as stated - InvalidRange on normalize: for every caller of the
\* normaliser, /anomalies/series as well as /anomalies/detect, a request whose
\* range has start_date > end_date ends with an error status and without a
\* series.
C15_InvalidRangeRejected ==
    (fn \in Handlers /\ pc = "responded" /\ RangeStart > RangeEnd) =>
        /\ response.status # 200
        /\ ~HasBody

\* What holds of the range check: /anomalies/detect answers 400 to such a
\* range without fetching or normalising
C15_DetectRejectsRange ==
    (Responded("detect_anomalies") /\ RangeStart > RangeEnd) =>
        /\ response.status \in {400, 422}
        /\ ~HasBody /\ queries = 0 /\ out = <<>>

\* /anomalies/series answered 200 with an empty series to start_date > end_date
C15_SeriesAcceptsRange ==
    /\ Responded("get_revenue_series") /\ RangeStart > RangeEnd
    /\ response.status = 200 /\ response.body = <<>>

\* The configuration errors of the specification
NonPositiveThreshold == RLe(threshold, RZero)
WindowBelowTwo == window < 2
UnknownMethod == method # "zscore" /\ method # "iqr"

\* C16 - InvalidConfig: a request to /anomalies/detect with threshold <= 0,
\* window < 2 or a method other than zscore and iqr never issues a query, is
\* never normalised and reaches no detector; it is answered 422 without a
\* body.
C16_InvalidConfigRejected ==
    (fn = "detect_anomalies" /\ (NonPositiveThreshold \/ WindowBelowTwo \/ UnknownMethod)) =>
        /\ queries = 0
        /\ series = <<>> /\ out = <<>>
        /\ series_vals = <<>> /\ anomalies = <<>>
        /\ pc \in {"received", "responded"}
        /\ pc = "responded" => (response.status = 422 /\ ~HasBody)

\* C16 witness: a request whose only fault is its window was answered 422
C16_Witness ==
    /\ Responded("detect_anomalies")
    /\ WindowBelowTwo /\ ~NonPositiveThreshold /\ ~UnknownMethod
    /\ RangeStart <= RangeEnd
    /\ response.status = 422
\* ... and one whose only fault is its threshold, one whose only fault is its method
C16_WitnessThreshold ==
    /\ Responded("detect_anomalies")
    /\ ~WindowBelowTwo /\ window <= 90 /\ NonPositiveThreshold /\ ~UnknownMethod
    /\ response.status = 422
C16_WitnessMethod ==
    /\ Responded("detect_anomalies")
    /\ ~WindowBelowTwo /\ window <= 90 /\ ~NonPositiveThreshold /\ UnknownMethod
    /\ response.status = 422

\* C17 as stated - Defensive window check in the core: a direct call of
\* _detect_zscore or _detect_iqr with window < 2 (0 and negative windows
\* included) does not return an anomaly list.
C17_CoreRejectsWindow ==
    (fn \in Detectors /\ window < 2) => pc # "done"

\* The direct call with window 0 returned an empty list without an error
C17_CoreReturnsEmpty ==
    /\ DetectorReturned /\ window < 2
    /\ Len(series_vals) >= 3 /\ anomalies = <<>> /\ error = "none"

ResultFields == {"series", "anomalies", "method", "window", "threshold"}

\* C18 - No partial result: a request to /anomalies/detect sends nothing
\* before it ends, and ends either with status 200 and a body holding the
\* whole series of the range, every anomaly found, method, window and
\* threshold, or with an error status and no body.  A range with
\* start_date > end_date is answered 400 with no query issued and no detector
\* run; a fetch that failed is answered 500 with no body.
C18_NoPartialResult ==
    fn = "detect_anomalies" =>
        /\ pc # "responded" => response = NoResponse
        /\ pc = "responded" =>
              \/ /\ response.status = 200
                 /\ DOMAIN response.body = ResultFields
                 /\ Len(response.body.series) = RangeEnd - RangeStart + 1
                 /\ Len(response.body.anomalies) = Len(anomalies)
                 /\ response.body.method = method
                 /\ response.body.window = window
                 /\ response.body.threshold = threshold
                 /\ error = "none"
              \/ /\ response.status \in {400, 422, 500}
                 /\ ~HasBody
        /\ (ValidConfig(method, window, threshold) /\ RangeStart > RangeEnd) =>
              /\ queries = 0
              /\ series_vals = <<>> /\ anomalies = <<>> /\ out = <<>>
              /\ pc = "responded" => response.status = 400
        /\ error # "none" => (pc = "responded" /\ response.status = 500 /\ ~HasBody)

\* C18 witness: a request with start_date > end_date was answered 400 before
\* any query
C18_Witness ==
    /\ Responded("detect_anomalies")
    /\ RangeStart > RangeEnd
    /\ response.status = 400 /\ queries = 0
\* ... a fetch failed after both queries, and a request was answered in full
C18_WitnessFetchFailed ==
    /\ Responded("detect_anomalies")
    /\ error = "DBAPIError" /\ queries = 2 /\ response.status = 500
C18_WitnessComplete ==
    /\ Responded("detect_anomalies")
    /\ response.status = 200
    /\ Len(response.body.series) = Span + 1
    /\ response.body.anomalies # <<>>

\* C19 - Degenerate range: a request to /anomalies/detect with
\* start_date = end_date whose fetch succeeds is answered 200 with a series of
\* exactly one point, that day, and an empty anomaly list, with either method;
\* /anomalies/series answers with the same single point; no detector raises an
\* error over missing history.
C19_DegenerateRange ==
    /\ (Responded("detect_anomalies") /\ response.status # 422
            /\ RangeStart = RangeEnd /\ error # "DBAPIError") =>
          /\ response.status = 200
          /\ Len(response.body.series) = 1
          /\ response.body.series[1].day = RangeStart
          /\ response.body.anomalies = <<>>
    /\ (Responded("get_revenue_series") /\ RangeStart = RangeEnd
            /\ error # "DBAPIError") =>
          /\ response.status = 200
          /\ Len(response.body) = 1
    /\ fn \in Handlers => error \in {"none", "DBAPIError"}

\* C19 witness: a z-score request for one day that has a revenue was answered
\* with that point and no anomaly
C19_Witness ==
    /\ Responded("detect_anomalies") /\ method = "zscore"
    /\ RangeStart = RangeEnd
    /\ response.status = 200
    /\ Len(response.body.series) = 1
    /\ response.body.series[1].revenue = RInt(13)
    /\ response.body.anomalies = <<>>
\* ... and an IQR request
C19_WitnessIqr ==
    /\ Responded("detect_anomalies") /\ method = "iqr"
    /\ RangeStart = RangeEnd
    /\ response.status = 200
    /\ Len(response.body.series) = 1
    /\ response.body.anomalies = <<>>

\* The reason strings of the valid requests of the model
ExpectedReason ==
    IF method = "zscore"
    THEN (IF threshold = RInt(3) THEN "zscore (window=4, threshold=3.0)"
          ELSE "zscore (window=4, threshold=0.5)")
    ELSE (IF threshold = RInt(3) THEN "iqr (window=4, threshold=3.0)"
          ELSE "iqr (window=4, threshold=0.5)")

\* C20 - Formatter mapping: the anomalies of a 200 response of
\* /anomalies/detect are, in order, one point for each (index, score) the
\* detector returned: day and revenue are those of series[index], the score is
\* that score, and the reason is "<method> (window=<window>,
\* threshold=<threshold>)" of the request; none is added or dropped.
C20_FormatterMapping ==
    (Responded("detect_anomalies") /\ response.status = 200) =>
        /\ Len(response.body.anomalies) = Len(anomalies)
        /\ \A k \in 1..Len(anomalies) :
              LET point == response.body.anomalies[k]
                  index == anomalies[k][1]
              IN /\ DOMAIN point = {"day", "revenue", "score", "reason"}
                 /\ point.day = response.body.series[index + 1].day
                 /\ point.revenue = response.body.series[index + 1].revenue
                 /\ point.day = RangeStart + index
                 /\ point.score = anomalies[k][2]
                 /\ (window = 4 /\ threshold \in {<<1, 2>>, RInt(3)}) =>
                        point.reason = ExpectedReason

\* C20 witness: a response holds the point of a detected anomaly, a day with
\* a revenue that is not the first of the series
C20_Witness ==
    /\ Responded("detect_anomalies") /\ response.status = 200
    /\ Len(anomalies) >= 1
    /\ anomalies[1][1] > 0
    /\ response.body.anomalies[1].revenue # RZero
    /\ response.body.anomalies[1].reason = ExpectedReason

\* C21 - Chronological order: in every 200 response of /anomalies/detect the
\* (index, score) pairs the detector returned are in strictly ascending index
\* order, and the anomalies of the body are in strictly ascending day order,
\* so no index and no day occurs twice.
C21_ChronologicalOrder ==
    (Responded("detect_anomalies") /\ response.status = 200) =>
        \A k \in 1..(Len(response.body.anomalies) - 1) :
            /\ anomalies[k][1] < anomalies[k + 1][1]
            /\ response.body.anomalies[k].day < response.body.anomalies[k + 1].day

\* C21 witness: a response with three anomalies, in ascending day order, the
\* last on the last day of the range
C21_Witness ==
    /\ Responded("detect_anomalies") /\ response.status = 200
    /\ Len(response.body.anomalies) >= 3
    /\ response.body.anomalies[1].day < response.body.anomalies[2].day
    /\ response.body.anomalies[Len(response.body.anomalies)].day = RangeEnd

\* The revenue the rows fetched hold for a day, 0 for a day without a row
RevenueOn(rows, day) ==
    IF \E k \in 1..Len(rows) : rows[k][1] = day
    THEN rows[CHOOSE k \in 1..Len(rows) : rows[k][1] = day][2]
    ELSE RZero

\* C22 - Series read-only: in every 200 response of /anomalies/detect the
\* series of the body equals the normaliser's output entry for entry, one
\* entry for each day of the range with the revenue fetched for it or 0, and
\* the values handed to the detector are still those of that output; at every
\* point of a request method, window and threshold are the values bound from
\* the request, and the body carries them unchanged.
C22_SeriesReadOnly ==
    fn = "detect_anomalies" =>
        /\ method = (IF request.method = NoMethod THEN "zscore" ELSE request.method)
        /\ window = (IF request.window = NoWindow THEN 7 ELSE request.window)
        /\ threshold = (IF request.threshold = NoThreshold THEN RInt(3)
                        ELSE request.threshold)
        /\ (pc = "responded" /\ response.status = 200) =>
              /\ Len(response.body.series) = Len(out)
              /\ Len(out) = RangeEnd - RangeStart + 1
              /\ \A k \in 1..Len(out) :
                    /\ out[k] = <<RangeStart + k - 1,
                                  RevenueOn(series, RangeStart + k - 1)>>
                    /\ response.body.series[k].day = out[k][1]
                    /\ response.body.series[k].revenue = out[k][2]
                    /\ series_vals[k] = out[k][2]
                    /\ DOMAIN response.body.series[k] = {"day", "revenue"}
              /\ response.body.method = method
              /\ response.body.window = window
              /\ response.body.threshold = threshold

\* C22 witness: a response with anomalies whose series still holds every day
\* of the range, the days without revenue and the anomalous days included
C22_Witness ==
    /\ Responded("detect_anomalies") /\ response.status = 200
    /\ response.body.anomalies # <<>>
    /\ Len(response.body.series) = Span + 1
    /\ \E k \in 1..Len(response.body.series) : response.body.series[k].revenue = RZero
    /\ \E k \in 1..Len(response.body.series) :
          response.body.series[k].day = response.body.anomalies[1].day

-----------------------------------------------------------------------------
(* Properties of a sequence of calls.                                      *)

\* The call that has just returned, as an entry of calls
ThisCall ==
    [fn |-> fn, series_vals |-> series_vals, window |-> window,
     threshold |-> threshold, result |-> anomalies]

SameArguments(a, b) ==
    /\ a.fn = b.fn /\ a.series_vals = b.series_vals
    /\ a.window = b.window /\ a.threshold = b.threshold

\* C23 - Determinism: in a sequence of calls of the detectors, two calls with
\* the same detector, values, window and threshold return the same list (the
\* same indices and scores in the same order), whatever was called in between.
C23_Determinism ==
    LET returned == IF fn \in Detectors /\ pc = "done"
                    THEN Append(calls, ThisCall) ELSE calls
    IN \A a, b \in 1..Len(returned) :
          SameArguments(returned[a], returned[b]) =>
              returned[a].result = returned[b].result

\* C23 witness: the third call repeats the first, after a call with other
\* arguments, and returns the same anomalies as the first
C23_Witness ==
    /\ fn \in Detectors /\ pc = "done"
    /\ Len(calls) = 2
    /\ SameArguments(calls[1], ThisCall)
    /\ ~SameArguments(calls[2], ThisCall)
    /\ calls[2].result # <<>>
    /\ anomalies # <<>>
    /\ anomalies = calls[1].result

-----------------------------------------------------------------------------
(* Properties of two concurrent requests.                                  *)

\* The response to query parameters q when the request runs alone and its
\* fetch returns rows
AloneResponse(q, rows) ==
    LET filled == FillMissingDays(rows, q.start_date, q.end_date)
    IN [status |-> 200,
        body |-> DetectionResult(filled,
                                 RunDetector(MethodParam(q.method), ValuesOf(filled),
                                             WindowParam(q.window),
                                             ThresholdParam(q.threshold)).add,
                                 MethodParam(q.method), WindowParam(q.window),
                                 ThresholdParam(q.threshold))]

Answered(r) ==
    /\ pair.locals[r].pc = "responded"
    /\ pair.locals[r].response.status = 200

\* C24 - Request independence: of two requests to /anomalies/detect that
\* interleave at their fetch, each one that is answered 200 was handed rows of
\* its own range and is answered exactly what it is answered when it runs
\* alone on those rows; the two never use the same session, and the
\* parameters of each stay those it was sent.
C24_Independence ==
    pc = "concurrent" =>
        /\ \A r \in PairIds :
              LET l == pair.locals[r]
              IN /\ l.method = MethodParam(l.request.method)
                 /\ l.window = WindowParam(l.request.window)
                 /\ l.threshold = ThresholdParam(l.request.threshold)
                 /\ Answered(r) =>
                       /\ \A k \in 1..Len(l.series) :
                             /\ l.request.start_date <= l.series[k][1]
                             /\ l.series[k][1] <= l.request.end_date
                       /\ l.response = AloneResponse(l.request, l.series)
        /\ (pair.locals[1].session # 0 /\ pair.locals[2].session # 0) =>
              pair.locals[1].session # pair.locals[2].session

\* C24 witness: request 2 was answered with an anomaly while request 1, sent
\* other parameters, was suspended between its two queries
C24_Witness ==
    /\ pc = "concurrent"
    /\ pair.locals[1].pc = "query2"
    /\ Answered(2)
    /\ pair.locals[2].response.body.anomalies # <<>>
    /\ pair.locals[1].request # pair.locals[2].request
\* ... and both were answered, with different results
C24_WitnessBoth ==
    /\ pc = "concurrent"
    /\ Answered(1) /\ Answered(2)
    /\ pair.locals[1].response # pair.locals[2].response

-----------------------------------------------------------------------------
RangeOmitted == request.start_date = NoDate /\ request.end_date = NoDate

ConfigOmitted ==
    /\ request.method = NoMethod
    /\ request.window = NoWindow
    /\ request.threshold = NoThreshold

\* C25 - Default range: a detection request that omits start_date and
\* end_date covers [today - 89 days, today]: once past validation its range is
\* that one, and a 200 response carries a series of exactly 90 consecutive
\* days of which the last is today.  A request that omits method, window and
\* threshold runs with zscore, 7 and 3.0 and reports them.
C25_DefaultRange ==
    fn = "detect_anomalies" =>
        /\ (RangeOmitted /\ pc # "received" /\ response.status # 422) =>
              start_date = Today - 89 /\ end_date = Today
        /\ (RangeOmitted /\ pc = "responded") =>
              /\ response.status # 400
              /\ response.status = 200 =>
                    /\ Len(response.body.series) = 90
                    /\ response.body.series[90].day = Today
                    /\ \A k \in 1..90 : response.body.series[k].day = Today - 90 + k
        /\ request.method = NoMethod => method = "zscore"
        /\ request.window = NoWindow => window = 7
        /\ request.threshold = NoThreshold => threshold = RInt(3)
        /\ (ConfigOmitted /\ pc = "responded" /\ response.status = 200) =>
                    /\ response.body.method = "zscore"
                    /\ response.body.window = 7
                    /\ response.body.threshold = RInt(3)

\* C25 witness: a request with every parameter omitted was answered 200 from
\* fetched rows
C25_Witness ==
    /\ Responded("detect_anomalies")
    /\ RangeOmitted /\ ConfigOmitted
    /\ response.status = 200
    /\ series # <<>>
    /\ Len(response.body.series) = 90

-----------------------------------------------------------------------------
OnlyEndSupplied == request.start_date = NoDate /\ request.end_date # NoDate

\* C27 - Default start anchored to today: when a detection request supplies
\* only end_date, its start_date is today - 89 days whatever end_date is; when
\* that end_date is earlier than today - 89 days the request is answered 400
\* with the start_date <= end_date error, without a query and without a
\* series.
C27_StartAnchoredToToday ==
    (fn = "detect_anomalies" /\ OnlyEndSupplied /\ pc # "received"
       /\ response.status # 422) =>
        /\ start_date = Today - 89
        /\ end_date = request.end_date
        /\ request.end_date < Today - 89 =>
              /\ pc = "responded"
              /\ response.status = 400
              /\ response.detail = "start_date must be <= end_date"
              /\ queries = 0
              /\ ~HasBody

\* C27 witness: a valid request with only an end_date earlier than
\* today - 89 days was answered 400
C27_Witness ==
    /\ Responded("detect_anomalies")
    /\ OnlyEndSupplied
    /\ request.end_date < Today - 89
    /\ ValidConfig(method, window, threshold)
    /\ response.status = 400
\* ... and one with only an end_date inside the default range was answered 200
C27_WitnessInside ==
    /\ Responded("detect_anomalies")
    /\ OnlyEndSupplied
    /\ request.end_date = Today - 1
    /\ response.status = 200
    /\ Len(response.body.series) = 89

-----------------------------------------------------------------------------
ShortWindow == window = 2 \/ window = 3

\* C26 - IQR with a short window: a run of _detect_iqr with window 2 or 3,
\* both accepted by the validation of the endpoint, flags nothing and raises
\* nothing, whatever the series and the threshold: no preceding window holds
\* 4 values, so every index is skipped.
C26_IqrShortWindowEmpty ==
    (fn = "_detect_iqr" /\ ShortWindow) =>
        /\ ValidWindow(window)
        /\ anomalies = <<>>
        /\ error = "none"
        /\ \A j \in Indices : Len(WindowVals(series_vals, j, window)) < 4

\* C26 witness: a run of _detect_iqr with window 3 returned nothing on a
\* series whose last value lies far above the three before it
C26_Witness ==
    /\ Returned("_detect_iqr")
    /\ window = 3
    /\ Len(series_vals) = 5
    /\ series_vals[5] = RInt(13)
    /\ \A k \in 2..4 : series_vals[k] # RInt(13)
    /\ threshold = <<1, 2>>
    /\ anomalies = <<>>

-----------------------------------------------------------------------------
\* The thresholds of the model that are at most t
ThresholdsUpTo(t) == {t1 \in Thresholds \cup {t} : RGe(t, t1)}

\* C28 - Threshold monotonicity: every (index, score) a detector returns at
\* its threshold is returned, with that score, by the same detector on the
\* same values and window at every smaller positive threshold.
C28_ThresholdMonotone ==
    (DetectorReturned /\ error = "none") =>
        \A t1 \in ThresholdsUpTo(threshold) :
            \A j \in Indices :
                EntriesAt(anomalies, j) # <<>> =>
                    Body(fn, series_vals, window, t1, j) = Pass(EntriesAt(anomalies, j))

\* C28 witness: a run at threshold 3 returned an anomaly, and at threshold
\* 1/2 the same run returns it and flags a further index
C28_Witness ==
    /\ DetectorReturned
    /\ threshold = RInt(3)
    /\ anomalies # <<>>
    /\ \E j \in Indices :
          /\ EntriesAt(anomalies, j) = <<>>
          /\ Body(fn, series_vals, window, <<1, 2>>, j) # Pass(<<>>)
\* ... and a run of _detect_iqr at threshold 3 returned an anomaly
C28_WitnessIqr ==
    /\ Returned("_detect_iqr")
    /\ threshold = RInt(3)
    /\ anomalies # <<>>

-----------------------------------------------------------------------------
\* series_vals with v in place of every value at an index smaller than
\* j - window
PastReplaced(j, v) ==
    [k \in 1..Len(series_vals) |-> IF k <= j - window THEN v ELSE series_vals[k]]

SmallerOf(a, b) == IF a <= b THEN a ELSE b

\* C29 - Bounded lookback: in a run of either detector (window >= 0, as is
\* every window the endpoint admits) the window at index j holds exactly
\* min(j, window) values, and the verdict and the score at j are those the
\* detector gives when every value at an index smaller than j - window is
\* replaced by any other value.
C29_BoundedLookback ==
    DetectorReturned =>
        \A j \in Indices :
            /\ Len(WindowVals(series_vals, j, window)) = SmallerOf(j, window)
            /\ \A v \in Vals :
                  Body(fn, PastReplaced(j, v), window, threshold, j)
                      = Pass(EntriesAt(anomalies, j))

\* C29 witness: a run with window 2 flagged index 4 of a series whose first
\* two values, which lie before the window, differ from those in it
C29_Witness ==
    /\ DetectorReturned
    /\ window = 2
    /\ Len(series_vals) = 5
    /\ EntriesAt(anomalies, 4) # <<>>
    /\ series_vals[1] = RInt(13)
    /\ series_vals[3] # RInt(13) /\ series_vals[4] # RInt(13)

-----------------------------------------------------------------------------
FirstOutcome == outcomes[1]
FirstFailed == FirstOutcome.raised \/ FirstOutcome.rows = <<>>

\* C30 - Fetch fallback: the fallback query of _get_daily_revenue is executed
\* exactly when the first query raised or returned no rows.  An exception of
\* the first query leaves no error and no response: the fallback follows.  An
\* exception of the fallback query leaves the handler (response 500).  When
\* the first query returns a row, these rows are the result and no second
\* query is issued.
C30_FetchFallback ==
    fn \in Handlers =>
        /\ queries <= 2 /\ Len(outcomes) <= queries
        /\ queries = 2 <=> (Len(outcomes) >= 1 /\ FirstFailed)
        /\ (Len(outcomes) = 1 /\ FirstFailed) =>
              /\ pc = "query2"
              /\ error = "none"
              /\ response = NoResponse
        /\ (Len(outcomes) >= 1 /\ ~FirstFailed) =>
              /\ Len(outcomes) = 1
              /\ queries = 1
              /\ pc = "responded"
              /\ series = FirstOutcome.rows
        /\ Len(outcomes) = 2 =>
              /\ pc = "responded"
              /\ IF outcomes[2].raised
                 THEN /\ error = "DBAPIError"
                      /\ response.status = 500
                      /\ ~HasBody
                 ELSE /\ series = outcomes[2].rows
                      /\ error # "DBAPIError"

\* C30 witness: the first query raised, the fallback returned rows and the
\* request was answered 200 from them
C30_Witness ==
    /\ fn \in Handlers /\ pc = "responded"
    /\ Len(outcomes) = 2
    /\ FirstOutcome.raised
    /\ outcomes[2].rows # <<>>
    /\ series = outcomes[2].rows
    /\ response.status = 200
\* ... the first query returned no rows and the fallback raised
C30_WitnessPropagates ==
    /\ fn \in Handlers /\ pc = "responded"
    /\ Len(outcomes) = 2
    /\ ~FirstOutcome.raised
    /\ outcomes[2].raised
    /\ response.status = 500
\* ... the first query returned rows
C30_WitnessNoFallback ==
    /\ fn \in Handlers /\ pc = "responded"
    /\ Len(outcomes) = 1
    /\ FirstOutcome.rows # <<>>
    /\ queries = 1
    /\ response.status = 200

=============================================================================
